---- MODULE Spec2Model ----
(***************************************************************************)
(* State-machine model of the space-warp star field.                       *)
(*                                                                         *)
(* Three revisions of the per-frame update live in the repository:         *)
(*   - the clamp revision of Scene.tsx (src/unnamed/part_000), stars move  *)
(*     toward the camera (z decreases);                                    *)
(*   - the current revision of Scene.tsx (src/src/Scene.tsx), stars move   *)
(*     away (z increases), Math.max instead of clamp;                      *)
(*   - the historical Stars2 / Backdrop pair (src/unnamed/part_002,        *)
(*     src/OLD/Backdrop.tsx) with the React-state gate.                    *)
(*                                                                         *)
(* Numbers.  Every length, time step, scale and velocity of the two Scene  *)
(* revisions is a fixed-point integer counting 1/Unit, Unit = 2^FracBits.  *)
(* The frame clock is sampled at whole seconds up to MaxTime, so that     *)
(* Math.pow(0.5, t) = Unit / 2^t is exact.  Colours are numerators over    *)
(* ColorOne, offsets count 1/(1000 * Unit).  Arithmetic is exact: the      *)
(* rounding of IEEE doubles and of the Float32 instance buffers is not     *)
(* modelled.                                                               *)
(***************************************************************************)
EXTENDS Integers, FiniteSets, Sequences, TLC

(* ------------------------------ bounds -------------------------------- *)
FracBits == 8
MaxTime == 6
MaxFrames == 3
COUNT == 2
MaxTick == 10
count == 1

Unit == 2 ^ FracBits
Milli == 10 ^ 3      \* the Stars2 revision counts in thousandths

(* ------------------------- program constants -------------------------- *)
XY_BOUNDS == 30
Z_BOUNDS == 20
MAX_SPEED_FACTOR == 40
MAX_SCALE_FACTOR == 40
CHROMATIC_ABBERATION_OFFSET == 7   \* 0.007, in thousandths

Cur_XY_BOUNDS == 40
Cur_MAX_SPEED_FACTOR == 2
Cur_MAX_SCALE_FACTOR == 50

zBounds == 1600                      \* Stars2 prop default
velocityToAnimateThreshold == 100    \* 0.1, in thousandths
BloomVelocity == 3000                \* the literal 3 of `velocity < 3`

(* ------------------------------ inputs -------------------------------- *)
\* Outcomes of three successive calls of Math.random() (a star's x, y, z),
\* each in [0, 1): the values used are 0, 1/2 and 15/16.
RandomTriples ==
  { [x |-> 0, y |-> Unit - (Unit \div 16), z |-> 0],
    [x |-> Unit - (Unit \div 16), y |-> 0, z |-> Unit \div 2],
    [x |-> Unit \div 2, y |-> Unit \div 2, z |-> Unit - (Unit \div 16)] }
\* Frame deltas handed to the callback: 0 (paused), 1/64 s, 1/4 s.
Deltas == {0, Unit \div 64, Unit \div 4}
\* Clock readings of the Scene revisions, whole seconds.
Times == {0, 1, 2, MaxTime}
Particles == 1 .. COUNT
\* Clock readings of the Stars2 revision: tick k is the time k * pi / 8.
Ticks == 1 .. MaxTick
Stars == 1 .. count
\* Outcomes of getRandomNumber(0, zBounds) for a star's z, in thousandths.
StarZs == {0, zBounds * Milli - Milli}

VARIABLES
  meshRef,             \* meshRef.current is set
  effectsRef,          \* effectsRef.current is set
  elapsedTime,         \* state.clock.elapsedTime of the last frame (seconds)
  delta,               \* delta of the last frame
  frames,              \* number of frame callbacks run so far
  lastFrame,           \* how far the last callback got
  positions,           \* part_000: the memoised initial positions
  matrix,              \* part_000: instanceMatrix, position and scale per star
  prevMatrix,          \* part_000: instanceMatrix before the last callback
  color,               \* part_000: instanceColor per star
  instanceColor,       \* part_000: instanceColor attribute exists
  matrixNeedsUpdate,   \* part_000: instanceMatrix.needsUpdate was raised
  colorNeedsUpdate,    \* part_000: instanceColor.needsUpdate was raised
  offset,              \* part_000: ChromaticAberration offset uniform
  step,                \* part_000: value of the step clamp in the last callback
  curMatrix,           \* Scene.tsx: instanceMatrix
  curPrevMatrix,       \* Scene.tsx: instanceMatrix before the last callback
  curColor,            \* Scene.tsx: instanceColor per star
  curInstanceColor,    \* Scene.tsx: instanceColor attribute exists
  curMatrixNeedsUpdate,
  curColorNeedsUpdate,
  curOffset,           \* Scene.tsx: ChromaticAberration offset uniform
  shouldAnimate,       \* Backdrop: useState(true), value the next render sees
  showBloom,           \* Backdrop: useState(false), value the next render sees
  starsShouldAnimate,  \* Stars2: the shouldAnimate prop its callback closes over
  starsShowBloom,      \* Stars2: the showBloom prop its callback closes over
  starsReady,          \* Stars2: meshRef.current and geomRef.current are set
  time,                \* Stars2: tick of the last clock reading
  coords,              \* Stars2: z of each star in the position2 array
  scaleZ,              \* Stars2: tempObject.scale.z
  usedGate,            \* Stars2: the gate the last update ran with
  velocity,            \* Stars2: velocity of the last update
  minVelocity,         \* Stars2: least velocity of any update so far
  loopPc,              \* part_000: where the host's frame is (idle, loop, ...)
  loopI,               \* part_000: the loop variable i of the callback (1-based)
  rendered             \* part_000: the instanceMatrix the renderer last drew

sceneVars == <<meshRef, effectsRef, elapsedTime, delta, frames, lastFrame,
               positions, matrix, prevMatrix, color, instanceColor,
               matrixNeedsUpdate, colorNeedsUpdate, offset, step,
               curMatrix, curPrevMatrix, curColor, curInstanceColor,
               curMatrixNeedsUpdate, curColorNeedsUpdate, curOffset>>

gatedVars == <<shouldAnimate, showBloom, starsShouldAnimate, starsShowBloom,
               starsReady, time, coords, scaleZ, usedGate, velocity,
               minVelocity>>

loopVars == <<loopPc, loopI, rendered>>

vars == <<sceneVars, gatedVars, loopVars>>

(* ----------------------------- helpers -------------------------------- *)
Min2(a, b) == IF a < b THEN a ELSE b
Max2(a, b) == IF a > b THEN a ELSE b

\* variant: the curve grows instead of decaying (2 in place of 0.5)
decay_growth(t) == Unit * (2 ^ t)

\* Math.pow(0.5, state.clock.elapsedTime)
decay(t) == Unit \div (2 ^ t)

clamp(min, value, max) == Min2(max, Max2(min, value))

\* variant: the draw is not centred on 0
generatePos_noCentre(r) == r * XY_BOUNDS

\* (Math.random() - 0.5) * XY_BOUNDS
generatePos(r) == (r - Unit \div 2) * XY_BOUNDS
Cur_generatePos(r) == (r - Unit \div 2) * Cur_XY_BOUNDS
\* (Math.random() - 0.5) * Z_BOUNDS
generateZ(r) == (r - Unit \div 2) * Z_BOUNDS

ZHalf == (Z_BOUNDS * Unit) \div 2      \* Z_BOUNDS / 2
ColorOne == ZHalf                      \* the colour component 1.0
NoStep == 0 - 1                       \* no update has run yet

Mat(x, y, z, sx, sy, sz) ==
  [x |-> x, y |-> y, z |-> z, sx |-> sx, sy |-> sy, sz |-> sz]
Gray(c) == [r |-> c, g |-> c, b |-> c]

(* --------------------- part_000: the clamp revision ------------------- *)
\* variant: the floor of 1 is lost
ScaleZ_noFloor(t) == Min2(MAX_SCALE_FACTOR * Unit, decay(t) * MAX_SCALE_FACTOR)

\* update scale
ScaleZ(t) == clamp(Unit, decay(t) * MAX_SCALE_FACTOR, MAX_SCALE_FACTOR * Unit)

\* variant: the README's earlier Math.max(delta, decay), no ceiling
StepClamp_noCeiling(t, d) == Max2(d, decay(t))

\* variant: the ceiling is MAX_SPEED_FACTOR, not delta * MAX_SPEED_FACTOR
StepClamp_absCeiling(t, d) == clamp(d, decay(t), MAX_SPEED_FACTOR * Unit)

\* the step subtracted from z in the else branch
StepClamp(t, d) == clamp(d, decay(t), d * MAX_SPEED_FACTOR)

\* variant: the recycle branch is lost
NextZ_stepOnly(z, t, d) == z - StepClamp(t, d)

\* variant: a star beyond the near plane is left where it is
NextZ_noRecycle(z, t, d) == IF z < -ZHalf THEN z ELSE z - StepClamp(t, d)

\* variant: the step is added, as in the current revision
NextZ_away(z, t, d) == IF z < -ZHalf THEN ZHalf ELSE z + StepClamp(t, d)

\* variant: the recycle target is Z_BOUNDS, not Z_BOUNDS / 2
NextZ_recycleFull(z, t, d) ==
  IF z < -ZHalf THEN Z_BOUNDS * Unit ELSE z - StepClamp(t, d)

\* update position: recycle, or else advance toward the camera
NextZ(z, t, d) == IF z < -ZHalf THEN ZHalf ELSE z - StepClamp(t, d)

\* variant: the ramp is applied on both sides of z = 0
Fade_rampOnly(z) == ColorOne + (z * ColorOne) \div ZHalf

\* update and apply color: 1 - z / (-Z_BOUNDS / 2), i.e. 1 + z / (Z_BOUNDS / 2)
Fade(z) == IF z > 0 THEN ColorOne ELSE ColorOne + (z * ColorOne) \div ZHalf

\* variant: the offset is never faded
OffsetValue_fixed(t) == CHROMATIC_ABBERATION_OFFSET * Unit

\* update post processing uniforms
OffsetValue(t) ==
  clamp(0, decay(t) * CHROMATIC_ABBERATION_OFFSET, CHROMATIC_ABBERATION_OFFSET * Unit)

\* variant: position.set is given no x and y
UpdateStar_dropXY(m, t, d) ==
  Mat(0, 0, NextZ(m.z, t, d), Unit, Unit, ScaleZ(t))

\* one pass of the loop body over star i
UpdateStar(m, t, d) ==
  Mat(m.x, m.y, NextZ(m.z, t, d), Unit, Unit, ScaleZ(t))

(* -------------------- Scene.tsx: the current revision ----------------- *)
\* 1 / Math.pow(elapsedTime + 1, elapsedTime + 1), truncated to 1/Unit
Cur_velocity(t) == Unit \div ((t + 1) ^ (t + 1))

Cur_ScaleZ(t) == Max2(Unit, Cur_velocity(t) * Cur_MAX_SCALE_FACTOR)

Cur_NextZ(z, t, d) ==
  IF z > ZHalf THEN -ZHalf ELSE z + Max2(d, Cur_velocity(t) * Cur_MAX_SPEED_FACTOR)

\* variant: the offset follows the revision's velocity curve, not 0.5^t
Cur_OffsetValue_velocity(t) == Max2(0, Cur_velocity(t) * CHROMATIC_ABBERATION_OFFSET)

Cur_OffsetValue(t) == Max2(0, decay(t) * CHROMATIC_ABBERATION_OFFSET)

Cur_UpdateStar(m, t, d) ==
  Mat(m.x, m.y, Cur_NextZ(m.z, t, d), Unit, Unit, Cur_ScaleZ(t))

(* ------------------------------- Init --------------------------------- *)
\* The state after the first render and its effects: positions memoised,
\* both refs attached, the useEffect has written every star's matrix (an
\* Object3D's scale is (1,1,1)), the effect carries its constructor offset.
\* Both revisions draw x, y, z per star from the same random stream.
SceneInitWith(rnd) ==
  /\ meshRef = TRUE
  /\ effectsRef = TRUE
  /\ elapsedTime = 0
  /\ delta = 0
  /\ frames = 0
  /\ lastFrame = "none"
  /\ positions = [i \in Particles |->
       [x |-> generatePos(rnd[i].x), y |-> generatePos(rnd[i].y),
        z |-> generateZ(rnd[i].z)]]
  /\ curMatrix = [i \in Particles |->
       Mat(Cur_generatePos(rnd[i].x), Cur_generatePos(rnd[i].y),
           generateZ(rnd[i].z), Unit, Unit, Unit)]
  /\ matrix = [i \in Particles |->
       Mat(positions[i].x, positions[i].y, positions[i].z, Unit, Unit, Unit)]
  /\ prevMatrix = matrix
  /\ color = [i \in Particles |-> Gray(0)]
  /\ instanceColor = FALSE
  /\ matrixNeedsUpdate = FALSE
  /\ colorNeedsUpdate = FALSE
  /\ offset = [x |-> CHROMATIC_ABBERATION_OFFSET * Unit,
               y |-> CHROMATIC_ABBERATION_OFFSET * Unit]
  /\ step = NoStep
  /\ curPrevMatrix = curMatrix
  /\ curColor = [i \in Particles |-> Gray(0)]
  /\ curInstanceColor = FALSE
  /\ curMatrixNeedsUpdate = FALSE
  /\ curColorNeedsUpdate = FALSE
  /\ curOffset = [x |-> CHROMATIC_ABBERATION_OFFSET * Unit,
                  y |-> CHROMATIC_ABBERATION_OFFSET * Unit]

(* ------------------ part_002 / Backdrop.tsx: Stars2 ------------------- *)
\* Math.cos(k * pi / 8) in thousandths, k = 0 .. 15 (one period)
CosTable == <<1000, 924, 707, 383, 0, -383, -707, -924,
              -1000, -924, -707, -383, 0, 383, 707, 924>>
cos(k) == CosTable[(k % 16) + 1]

\* (Math.cos(time) + 1) * 8.0
Signal(k) == (cos(k) + Milli) * 8

\* const velocity = shouldAnimate ? (Math.cos(time) + 1) * 8.0 : threshold
Velocity(gate, k) == IF gate THEN Signal(k) ELSE velocityToAnimateThreshold

\* variant: the test of showBloom is inverted
BloomAfter_inverted(v, prop, cur) == IF v < BloomVelocity /\ prop THEN TRUE ELSE cur

\* if (velocity < 3 && !showBloom) setShowBloom(true)
BloomAfter(v, prop, cur) == IF v < BloomVelocity /\ ~prop THEN TRUE ELSE cur

\* variant: the gate is tested against the bloom threshold
AnimateAfter_bloomThreshold(v, prop, cur) ==
  IF v < BloomVelocity /\ prop THEN FALSE ELSE cur

\* if (velocity <= velocityToAnimateThreshold && shouldAnimate) setShouldAnimate(false)
AnimateAfter(v, prop, cur) ==
  IF v <= velocityToAnimateThreshold /\ prop THEN FALSE ELSE cur

\* if (shouldAnimate) tempObject.scale.set(1, 1, (Math.cos(time) + 1) * 40)
StarScale(gate, k, old) == IF gate THEN (cos(k) + Milli) * 40 ELSE old

\* positions[z] = velocity + positions[z]; back to 0 beyond zBounds
StarZ(z, v) == IF v + z > zBounds * Milli THEN 0 ELSE v + z

GateName(gate) == IF gate THEN "Warping" ELSE "Settled"
NoVelocity == 16 * Milli + 1

\* Backdrop's useState initial values; Stars2 rendered once with them, its
\* refs attached, coords memoised from the random draws zs.
GatedInitWith(zs) ==
  /\ shouldAnimate = TRUE
  /\ showBloom = FALSE
  /\ starsShouldAnimate = TRUE
  /\ starsShowBloom = FALSE
  /\ starsReady = TRUE
  /\ time = 0
  /\ coords = zs
  /\ scaleZ = Milli
  /\ usedGate = "none"
  /\ velocity = NoVelocity
  /\ minVelocity = NoVelocity

(* ------------------------------ actions ------------------------------- *)
\* variant: the meshRef guard is lost and the loop always runs
BaseFrame_noGuard(t, d) ==
  /\ matrix' = [i \in Particles |-> UpdateStar(matrix[i], t, d)]
  /\ color' = [i \in Particles |-> Gray(Fade(matrix'[i].z))]
  /\ instanceColor' = TRUE
  /\ matrixNeedsUpdate' = TRUE
  /\ colorNeedsUpdate' = TRUE
  /\ step' = StepClamp(t, d)
  /\ IF ~effectsRef
     THEN UNCHANGED offset
     ELSE offset' = [x |-> OffsetValue(t), y |-> OffsetValue(t)]

\* part_000, useFrame callback, lines 54-115
BaseFrame(t, d) ==
  IF ~meshRef
  THEN UNCHANGED <<matrix, color, instanceColor, matrixNeedsUpdate,
                   colorNeedsUpdate, offset, step>>
  ELSE /\ matrix' = [i \in Particles |-> UpdateStar(matrix[i], t, d)]
       /\ color' = [i \in Particles |-> Gray(Fade(matrix'[i].z))]
       /\ instanceColor' = TRUE
       /\ matrixNeedsUpdate' = TRUE
       /\ colorNeedsUpdate' = TRUE
       /\ step' = StepClamp(t, d)
       /\ IF ~effectsRef
          THEN UNCHANGED offset
          ELSE offset' = [x |-> OffsetValue(t), y |-> OffsetValue(t)]

\* Scene.tsx, useFrame callback, lines 43-93
CurFrame(t, d) ==
  IF ~meshRef
  THEN UNCHANGED <<curMatrix, curColor, curInstanceColor,
                   curMatrixNeedsUpdate, curColorNeedsUpdate, curOffset>>
  ELSE /\ curMatrix' = [i \in Particles |-> Cur_UpdateStar(curMatrix[i], t, d)]
       /\ curColor' = [i \in Particles |-> Gray(Fade(curMatrix'[i].z))]
       /\ curInstanceColor' = TRUE
       /\ curMatrixNeedsUpdate' = TRUE
       /\ curColorNeedsUpdate' = TRUE
       /\ IF ~effectsRef
          THEN UNCHANGED curOffset
          ELSE curOffset' = [x |-> Cur_OffsetValue(t), y |-> Cur_OffsetValue(t)]

\* The host calls the frame callback of both revisions with the same clock
\* reading and delta.  The clock never runs backwards.
Frame ==
  /\ frames < MaxFrames
  /\ \E t \in Times, d \in Deltas :
       /\ t >= elapsedTime
       /\ elapsedTime' = t
       /\ delta' = d
       /\ BaseFrame(t, d)
       /\ CurFrame(t, d)
  /\ frames' = frames + 1
  /\ lastFrame' = IF ~meshRef THEN "skipped"
                  ELSE IF ~effectsRef THEN "noeffects" ELSE "full"
  /\ prevMatrix' = matrix
  /\ curPrevMatrix' = curMatrix
  /\ UNCHANGED <<meshRef, effectsRef, positions>>
  /\ UNCHANGED gatedVars
  /\ UNCHANGED loopVars

\* The deltas of a run whose frames never come faster than a fixed d > 0.
LiveDeltas == {Unit \div 4, Unit \div 2}

\* The host calls the part_000 callback for ever, both refs attached; the
\* count of frames stops at MaxFrames and the clock reading at MaxTime.
FrameLive ==
  /\ \E t \in Times, d \in LiveDeltas :
       /\ t >= elapsedTime
       /\ elapsedTime' = t
       /\ delta' = d
       /\ BaseFrame(t, d)
  /\ frames' = Min2(frames + 1, MaxFrames)
  /\ lastFrame' = IF ~meshRef THEN "skipped"
                  ELSE IF ~effectsRef THEN "noeffects" ELSE "full"
  /\ prevMatrix' = matrix
  /\ UNCHANGED <<meshRef, effectsRef, positions, curMatrix, curPrevMatrix,
                 curColor, curInstanceColor, curMatrixNeedsUpdate,
                 curColorNeedsUpdate, curOffset>>
  /\ UNCHANGED gatedVars
  /\ UNCHANGED loopVars

\* React clears meshRef.current when the instancedMesh element goes away
ClearMeshRef ==
  /\ meshRef
  /\ meshRef' = FALSE
  /\ UNCHANGED <<effectsRef, elapsedTime, delta, frames, lastFrame,
                 positions, matrix, prevMatrix, color, instanceColor,
                 matrixNeedsUpdate, colorNeedsUpdate, offset, step,
                 curMatrix, curPrevMatrix, curColor, curInstanceColor,
                 curMatrixNeedsUpdate, curColorNeedsUpdate, curOffset>>
  /\ UNCHANGED gatedVars
  /\ UNCHANGED loopVars

\* React clears effectsRef.current when the effect element goes away
ClearEffectsRef ==
  /\ effectsRef
  /\ effectsRef' = FALSE
  /\ UNCHANGED <<meshRef, elapsedTime, delta, frames, lastFrame,
                 positions, matrix, prevMatrix, color, instanceColor,
                 matrixNeedsUpdate, colorNeedsUpdate, offset, step,
                 curMatrix, curPrevMatrix, curColor, curInstanceColor,
                 curMatrixNeedsUpdate, curColorNeedsUpdate, curOffset>>
  /\ UNCHANGED gatedVars
  /\ UNCHANGED loopVars

\* part_002, useFrame callback, lines 64-102.  The clock has moved on since
\* the previous frame.  scale is set once per frame on the shared tempObject.
StarsFrame ==
  \E k \in Ticks :
    /\ k > time
    /\ time' = k
    /\ IF ~starsReady
       THEN UNCHANGED <<shouldAnimate, showBloom, coords, scaleZ, usedGate,
                        velocity, minVelocity>>
       ELSE LET v == Velocity(starsShouldAnimate, k) IN
            /\ showBloom' = BloomAfter(v, starsShowBloom, showBloom)
            /\ shouldAnimate' = AnimateAfter(v, starsShouldAnimate, shouldAnimate)
            /\ scaleZ' = StarScale(starsShouldAnimate, k, scaleZ)
            /\ coords' = [i \in Stars |-> StarZ(coords[i], v)]
            /\ usedGate' = GateName(starsShouldAnimate)
            /\ velocity' = v
            /\ minVelocity' = Min2(minVelocity, v)
    /\ UNCHANGED <<starsShouldAnimate, starsShowBloom, starsReady>>
    /\ UNCHANGED sceneVars
    /\ UNCHANGED loopVars

\* React renders Backdrop and Stars2 again after a state change: the frame
\* callback of the new render closes over the new props.
Rerender ==
  /\ <<starsShouldAnimate, starsShowBloom>> # <<shouldAnimate, showBloom>>
  /\ starsShouldAnimate' = shouldAnimate
  /\ starsShowBloom' = showBloom
  /\ UNCHANGED <<shouldAnimate, showBloom, starsReady, time, coords, scaleZ,
                 usedGate, velocity, minVelocity>>
  /\ UNCHANGED sceneVars
  /\ UNCHANGED loopVars

\* How far the clock moves between two frames of an endless run, in ticks:
\* half a period or a whole period of the cosine.
Advances == {8, 16}

\* part_002, useFrame callback, lines 64-102, in a run that never ends: the
\* callback reads the clock only through Math.cos, so the clock is kept as
\* its phase within one period.
StarsFrameLive ==
  \E adv \in Advances :
    LET k == (time + adv) % 16
        v == Velocity(starsShouldAnimate, k) IN
    /\ starsReady
    /\ time' = k
    /\ showBloom' = BloomAfter(v, starsShowBloom, showBloom)
    /\ shouldAnimate' = AnimateAfter(v, starsShouldAnimate, shouldAnimate)
    /\ scaleZ' = StarScale(starsShouldAnimate, k, scaleZ)
    /\ coords' = [i \in Stars |-> StarZ(coords[i], v)]
    /\ usedGate' = GateName(starsShouldAnimate)
    /\ velocity' = v
    /\ minVelocity' = Min2(minVelocity, v)
    /\ UNCHANGED <<starsShouldAnimate, starsShowBloom, starsReady>>
    /\ UNCHANGED sceneVars
    /\ UNCHANGED loopVars

\* React clears the refs of Stars2 when its elements go away
ClearStarsRefs ==
  /\ starsReady
  /\ starsReady' = FALSE
  /\ UNCHANGED <<shouldAnimate, showBloom, starsShouldAnimate, starsShowBloom,
                 time, coords, scaleZ, usedGate, velocity, minVelocity>>
  /\ UNCHANGED sceneVars
  /\ UNCHANGED loopVars

\* The host is between frames; the renderer has drawn the mounted buffer.
LoopInit ==
  /\ loopPc = "idle"
  /\ loopI = 0
  /\ rendered = matrix

(* The part_000 callback statement by statement, inside the host's frame:   *)
(* the host runs the callback to its end and then renders.                  *)

\* part_000 lines 54-57: the callback is entered with the frame's clock
LoopBegin ==
  /\ loopPc = "idle"
  /\ frames < MaxFrames
  /\ \E t \in Times, d \in Deltas :
       /\ t >= elapsedTime
       /\ elapsedTime' = t
       /\ delta' = d
       /\ step' = IF meshRef THEN StepClamp(t, d) ELSE step
  /\ frames' = frames + 1
  /\ prevMatrix' = matrix
  /\ IF ~meshRef
     THEN loopPc' = "render" /\ lastFrame' = "skipped" /\ loopI' = loopI
     ELSE loopPc' = "loop" /\ lastFrame' = "running" /\ loopI' = 1
  /\ UNCHANGED <<meshRef, effectsRef, positions, matrix, color, instanceColor,
                 matrixNeedsUpdate, colorNeedsUpdate, offset, rendered,
                 curMatrix, curPrevMatrix, curColor, curInstanceColor,
                 curMatrixNeedsUpdate, curColorNeedsUpdate, curOffset>>
  /\ UNCHANGED gatedVars

\* variant: the dirty flags are raised inside the loop body
LoopStep_flagsInside ==
  /\ loopPc = "loop"
  /\ loopI <= COUNT
  /\ matrix' = [matrix EXCEPT ![loopI] = UpdateStar(@, elapsedTime, delta)]
  /\ color' = [color EXCEPT ![loopI] = Gray(Fade(matrix'[loopI].z))]
  /\ instanceColor' = TRUE
  /\ matrixNeedsUpdate' = TRUE
  /\ colorNeedsUpdate' = TRUE
  /\ loopI' = loopI + 1
  /\ UNCHANGED <<meshRef, effectsRef, elapsedTime, delta, frames, lastFrame,
                 positions, prevMatrix, offset, step, loopPc, rendered,
                 curMatrix, curPrevMatrix, curColor, curInstanceColor,
                 curMatrixNeedsUpdate, curColorNeedsUpdate, curOffset>>
  /\ UNCHANGED gatedVars

\* part_000 lines 57-98: one pass of the loop body, setMatrixAt and setColorAt
LoopStep ==
  /\ loopPc = "loop"
  /\ loopI <= COUNT
  /\ matrix' = [matrix EXCEPT ![loopI] = UpdateStar(@, elapsedTime, delta)]
  /\ color' = [color EXCEPT ![loopI] = Gray(Fade(matrix'[loopI].z))]
  /\ instanceColor' = TRUE
  /\ loopI' = loopI + 1
  /\ UNCHANGED <<meshRef, effectsRef, elapsedTime, delta, frames, lastFrame,
                 positions, prevMatrix, matrixNeedsUpdate, colorNeedsUpdate,
                 offset, step, loopPc, rendered,
                 curMatrix, curPrevMatrix, curColor, curInstanceColor,
                 curMatrixNeedsUpdate, curColorNeedsUpdate, curOffset>>
  /\ UNCHANGED gatedVars

\* part_000 lines 99-101: the loop is over, both attributes are marked dirty
RaiseFlags ==
  /\ loopPc = "loop"
  /\ loopI > COUNT
  /\ matrixNeedsUpdate' = TRUE
  /\ colorNeedsUpdate' = IF instanceColor THEN TRUE ELSE colorNeedsUpdate
  /\ loopPc' = "effects"
  /\ UNCHANGED <<meshRef, effectsRef, elapsedTime, delta, frames, lastFrame,
                 positions, matrix, prevMatrix, color, instanceColor,
                 offset, step, loopI, rendered,
                 curMatrix, curPrevMatrix, curColor, curInstanceColor,
                 curMatrixNeedsUpdate, curColorNeedsUpdate, curOffset>>
  /\ UNCHANGED gatedVars

\* part_000 lines 103-115: the offset uniform, and the callback returns
UpdateOffset ==
  /\ loopPc = "effects"
  /\ IF ~effectsRef
     THEN UNCHANGED offset
     ELSE offset' = [x |-> OffsetValue(elapsedTime), y |-> OffsetValue(elapsedTime)]
  /\ lastFrame' = IF ~effectsRef THEN "noeffects" ELSE "full"
  /\ loopPc' = "render"
  /\ UNCHANGED <<meshRef, effectsRef, elapsedTime, delta, frames,
                 positions, matrix, prevMatrix, color, instanceColor,
                 matrixNeedsUpdate, colorNeedsUpdate, step, loopI, rendered,
                 curMatrix, curPrevMatrix, curColor, curInstanceColor,
                 curMatrixNeedsUpdate, curColorNeedsUpdate, curOffset>>
  /\ UNCHANGED gatedVars

\* The Canvas draws after the callbacks of the frame have returned: a dirty
\* attribute is uploaded whole and is clean afterwards.
Render ==
  /\ loopPc = "render"
  /\ rendered' = IF meshRef /\ matrixNeedsUpdate THEN matrix ELSE rendered
  /\ matrixNeedsUpdate' = FALSE
  /\ colorNeedsUpdate' = FALSE
  /\ loopPc' = "idle"
  /\ UNCHANGED <<meshRef, effectsRef, elapsedTime, delta, frames, lastFrame,
                 positions, matrix, prevMatrix, color, instanceColor,
                 offset, step, loopI,
                 curMatrix, curPrevMatrix, curColor, curInstanceColor,
                 curMatrixNeedsUpdate, curColorNeedsUpdate, curOffset>>
  /\ UNCHANGED gatedVars

\* React commits (and clears refs) between frames, never inside a callback
LoopClearMeshRef == loopPc = "idle" /\ ClearMeshRef

LoopClearEffectsRef == loopPc = "idle" /\ ClearEffectsRef

\* Scene mounted with any random draws (Stars2 idle beside it)
Init ==
  /\ \E rnd \in [Particles -> RandomTriples] : SceneInitWith(rnd)
  /\ GatedInitWith([i \in Stars |-> 0])
  /\ LoopInit

\* Stars2 mounted with any random draws (Scene idle beside it)
InitGated ==
  /\ SceneInitWith([i \in Particles |-> [x |-> 0, y |-> 0, z |-> 0]])
  /\ \E zs \in [Stars -> StarZs] : GatedInitWith(zs)
  /\ LoopInit

\* The two Scene revisions, side by side on the same frames.
Next == Frame \/ ClearMeshRef \/ ClearEffectsRef

Spec == Init /\ [][Next]_vars

\* The Stars2 revision under Backdrop.
NextGated == StarsFrame \/ Rerender \/ ClearStarsRefs

SpecGated == InitGated /\ [][NextGated]_vars

\* The clamp revision, its callback taken statement by statement.
NextLoop ==
  \/ LoopBegin \/ LoopStep \/ RaiseFlags \/ UpdateOffset \/ Render
  \/ LoopClearMeshRef \/ LoopClearEffectsRef

SpecLoop == Init /\ [][NextLoop]_vars

\* The Stars2 revision in a run that never ends: frames keep arriving and
\* a pending render is eventually done.
NextGatedLive == StarsFrameLive \/ Rerender

SpecGatedLive ==
  InitGated /\ [][NextGatedLive]_vars
            /\ WF_vars(StarsFrameLive) /\ WF_vars(Rerender)

\* The clamp revision in a run that never ends: frames keep arriving.
NextLive == FrameLive

SpecLive == Init /\ [][NextLive]_vars /\ WF_vars(FrameLive)

(* ============================== claims ================================ *)
\* The last callback passed the meshRef guard and ran the loop.
Ran == lastFrame \in {"noeffects", "full"}
\* Star i entered the last callback beyond the near plane (recycle branch).
Recycled(i) == prevMatrix[i].z < -ZHalf

(* C1: in the clamp revision every colour written is gray (r = g = b) and  *)
(* lies in [0, 1].  Stated as claimed; the code writes a negative colour   *)
(* on the frame whose step carries z past -Z_BOUNDS/2.                     *)
C1_ColorGrayInUnitRange ==
  instanceColor =>
    \A i \in Particles :
      /\ color[i].r = color[i].g
      /\ color[i].g = color[i].b
      /\ 0 <= color[i].r
      /\ color[i].r <= ColorOne

(* C2, as claimed: no frame ends with a stored z below -Z_BOUNDS/2.        *)
C2_NoStoredZBeyondNearPlane ==
  \A i \in Particles : matrix[i].z >= -ZHalf

(* C2, amended: a star that enters an update frame with z below            *)
(* -Z_BOUNDS/2 leaves it at exactly Z_BOUNDS/2, and a z below -Z_BOUNDS/2  *)
(* stored at the end of an update frame was produced by that frame's step  *)
(* (the star entered the frame at or above the near plane).                *)
C2_RecycledOnNextFrame ==
  Ran =>
    \A i \in Particles :
      /\ Recycled(i) => matrix[i].z = ZHalf
      /\ matrix[i].z < -ZHalf => ~Recycled(i)

\* a star overshot the near plane in one frame and the next frame reset it
C2_Witness ==
  /\ Ran
  /\ frames >= 2
  /\ \E i \in Particles :
       Recycled(i) /\ positions[i].z >= -ZHalf /\ matrix[i].z = ZHalf

(* C3: in both Scene revisions the z-scale written lies in                 *)
(* [1, MAX_SCALE_FACTOR] and the x- and y-scale are exactly 1.             *)
C3_ScaleWithinBounds ==
  \A i \in Particles :
    /\ matrix[i].sx = Unit /\ matrix[i].sy = Unit
    /\ Unit <= matrix[i].sz /\ matrix[i].sz <= MAX_SCALE_FACTOR * Unit
    /\ curMatrix[i].sx = Unit /\ curMatrix[i].sy = Unit
    /\ Unit <= curMatrix[i].sz /\ curMatrix[i].sz <= Cur_MAX_SCALE_FACTOR * Unit

\* a late frame: both raw stretches are below 1 and the floor holds them at 1
C3_Witness ==
  /\ Ran
  /\ decay(elapsedTime) * MAX_SCALE_FACTOR < Unit
  /\ Cur_velocity(elapsedTime) * Cur_MAX_SCALE_FACTOR < Unit
  /\ \A i \in Particles : matrix[i].sz = Unit /\ curMatrix[i].sz = Unit

(* C4: in the clamp revision a star that is not recycled moves by exactly  *)
(* step = min(delta * MAX_SPEED_FACTOR, max(delta, 0.5^elapsedTime)), and  *)
(* delta <= step <= delta * MAX_SPEED_FACTOR.                              *)
C4_StepExactAndBounded ==
  Ran =>
    \A i \in Particles :
      ~Recycled(i) =>
        /\ matrix[i].z = prevMatrix[i].z
             - Min2(delta * MAX_SPEED_FACTOR, Max2(delta, Unit \div (2 ^ elapsedTime)))
        /\ delta <= prevMatrix[i].z - matrix[i].z
        /\ prevMatrix[i].z - matrix[i].z <= delta * MAX_SPEED_FACTOR

\* the ceiling binds: 0.5^t exceeds delta * MAX_SPEED_FACTOR
C4_Witness ==
  /\ Ran
  /\ delta > 0
  /\ Unit \div (2 ^ elapsedTime) > delta * MAX_SPEED_FACTOR
  /\ \E i \in Particles :
       ~Recycled(i) /\ matrix[i].z = prevMatrix[i].z - delta * MAX_SPEED_FACTOR

(* C5, as claimed: on a frame with delta = 0 every star that is not        *)
(* recycled moves toward the camera by at least 0.5^elapsedTime > 0.       *)
C5_PausedFrameStillAdvances ==
  (Ran /\ delta = 0) =>
    \A i \in Particles :
      ~Recycled(i) =>
        /\ matrix[i].z < prevMatrix[i].z
        /\ prevMatrix[i].z - matrix[i].z >= Unit \div (2 ^ elapsedTime)

(* C5, amended: on a frame with delta = 0 the ceiling                      *)
(* delta * MAX_SPEED_FACTOR is 0, the step is 0 and every star that is not *)
(* recycled keeps its z.                                                   *)
C5_PausedFrameHoldsZ ==
  (Ran /\ delta = 0) =>
    /\ step = 0
    /\ \A i \in Particles : ~Recycled(i) => matrix[i].z = prevMatrix[i].z

C5_Witness ==
  /\ Ran
  /\ delta = 0
  /\ \E i \in Particles : ~Recycled(i) /\ matrix[i].z = prevMatrix[i].z

(* C8: after a frame in which both refs exist, offset.x = offset.y =       *)
(* clamp(0, 0.5^elapsedTime * BASE_OFFSET, BASE_OFFSET), within            *)
(* [0, BASE_OFFSET].                                                       *)
C8_OffsetTracksDecay ==
  lastFrame = "full" =>
    /\ offset.x = offset.y
    /\ offset.x = Min2(CHROMATIC_ABBERATION_OFFSET * Unit,
                       Max2(0, (Unit \div (2 ^ elapsedTime)) * CHROMATIC_ABBERATION_OFFSET))
    /\ 0 <= offset.x
    /\ offset.x <= CHROMATIC_ABBERATION_OFFSET * Unit

C8_Witness ==
  /\ lastFrame = "full"
  /\ elapsedTime > 0
  /\ offset.x < CHROMATIC_ABBERATION_OFFSET * Unit
  /\ offset.x > 0

(* C9, as claimed: on the frame that recycles a star the colour written    *)
(* for it is (0,0,0).                                                      *)
C9_RecycledColorBlack ==
  Ran => \A i \in Particles : Recycled(i) => color[i] = Gray(0)

(* C9, amended: on the frame that recycles a star the colour written for   *)
(* it is (1,1,1), the colour of the far plane.                             *)
C9_RecycledColorWhite ==
  Ran => \A i \in Particles : Recycled(i) => color[i] = Gray(ColorOne)

C9_Witness ==
  /\ Ran
  /\ \E i \in Particles :
       Recycled(i) /\ matrix[i].z = ZHalf /\ color[i].r = ColorOne

(* C10: with the same delta > 0 on consecutive update frames (the clock    *)
(* never runs backwards) the step does not grow, and on every frame with   *)
(* 0.5^elapsedTime <= delta the step is exactly delta.                     *)
C10_FloorReached ==
  (Ran /\ delta > 0 /\ Unit \div (2 ^ elapsedTime) <= delta) => step = delta

C10_NonIncreasing ==
  (Ran /\ Ran' /\ frames' = frames + 1 /\ delta' = delta /\ delta > 0
     /\ elapsedTime' >= elapsedTime)
    => step' <= step

C10_StepSettles == [](C10_FloorReached) /\ [][C10_NonIncreasing]_vars

\* two update frames with the same delta, the second on the floor and lower
C10_Witness ==
  /\ Ran
  /\ frames >= 2
  /\ delta > 0
  /\ Unit \div (2 ^ elapsedTime) < delta
  /\ step = delta

\* Some update so far computed a velocity at or below the gate threshold.
Crossed == minVelocity <= velocityToAnimateThreshold
\* The step just taken was an update of Stars2 (the refs were set).
StarsUpdated == time' > time /\ starsReady

(* C6, as claimed: the update runs as Warping on every frame before the    *)
(* first frame k whose velocity is <= 0.1 and as Settled on every frame    *)
(* from k on.                                                              *)
C6_SettledFromCrossingFrame ==
  usedGate # "none" => (usedGate = "Settled" <=> Crossed)

(* C6, amended: the gate starts Warping; every update up to and including  *)
(* the first frame k whose velocity is <= 0.1 runs as Warping, frame k     *)
(* only requests the change (the React state is false from frame k on);    *)
(* updates run as Settled from the first frame after Stars2 has rendered   *)
(* again with the new state, and neither the state nor the gate the        *)
(* updates use ever returns to Warping: at most one transition.            *)
C6_GateState ==
  /\ usedGate = "none" => (shouldAnimate /\ starsShouldAnimate)
  /\ shouldAnimate <=> ~Crossed
  /\ shouldAnimate => starsShouldAnimate
  /\ usedGate = "Settled" => (~starsShouldAnimate /\ Crossed)

C6_GateStep ==
  /\ ~shouldAnimate => ~shouldAnimate'
  /\ ~starsShouldAnimate => ~starsShouldAnimate'
  /\ usedGate = "Settled" => usedGate' = "Settled"
  /\ (StarsUpdated /\ ~Crossed) => usedGate' = "Warping"
  /\ (StarsUpdated /\ ~starsShouldAnimate) => usedGate' = "Settled"

C6_GateSettlesOnceAfterRerender == [](C6_GateState) /\ [][C6_GateStep]_vars

\* frame k itself: the velocity is at the floor, the update ran as Warping
C6_Witness ==
  /\ usedGate = "Warping"
  /\ velocity <= velocityToAnimateThreshold
  /\ ~shouldAnimate
  /\ starsShouldAnimate

(* C7: bloom starts disabled, is enabled by the first update whose         *)
(* velocity is below 3 (also while the gate is still Warping), is never    *)
(* disabled again, and Settled implies bloom enabled, both in the React    *)
(* state and in the props an update sees.                                  *)
C7_BloomState ==
  /\ usedGate = "none" => ~showBloom
  /\ showBloom <=> minVelocity < BloomVelocity
  /\ ~shouldAnimate => showBloom
  /\ ~starsShouldAnimate => starsShowBloom
  /\ starsShowBloom => showBloom

C7_BloomStep ==
  /\ showBloom => showBloom'
  /\ starsShowBloom => starsShowBloom'

C7_BloomBeforeSettled == [](C7_BloomState) /\ [][C7_BloomStep]_vars

\* bloom enabled early: velocity below 3 but above the gate threshold
C7_Witness ==
  /\ showBloom
  /\ shouldAnimate
  /\ usedGate = "Warping"
  /\ velocity < BloomVelocity
  /\ velocity > velocityToAnimateThreshold

(* C11: right after initialisation every star of both Scene revisions has  *)
(* x and y in [-XY_BOUNDS/2, XY_BOUNDS/2] and z in                         *)
(* [-Z_BOUNDS/2, Z_BOUNDS/2], whatever Math.random() returned.             *)
C11_InitialPositionsInBounds ==
  frames = 0 =>
    \A i \in Particles :
      /\ 2 * matrix[i].x >= -(XY_BOUNDS * Unit) /\ 2 * matrix[i].x <= XY_BOUNDS * Unit
      /\ 2 * matrix[i].y >= -(XY_BOUNDS * Unit) /\ 2 * matrix[i].y <= XY_BOUNDS * Unit
      /\ 2 * matrix[i].z >= -(Z_BOUNDS * Unit) /\ 2 * matrix[i].z <= Z_BOUNDS * Unit
      /\ 2 * curMatrix[i].x >= -(Cur_XY_BOUNDS * Unit)
      /\ 2 * curMatrix[i].x <= Cur_XY_BOUNDS * Unit
      /\ 2 * curMatrix[i].y >= -(Cur_XY_BOUNDS * Unit)
      /\ 2 * curMatrix[i].y <= Cur_XY_BOUNDS * Unit
      /\ 2 * curMatrix[i].z >= -(Z_BOUNDS * Unit) /\ 2 * curMatrix[i].z <= Z_BOUNDS * Unit

\* the extreme draws: 0 puts a star on the lower bound, 15/16 near the upper
C11_Witness ==
  /\ frames = 0
  /\ \E i \in Particles :
       /\ 2 * matrix[i].x = -(XY_BOUNDS * Unit)
       /\ 2 * matrix[i].z = -(Z_BOUNDS * Unit)
       /\ 2 * curMatrix[i].x = -(Cur_XY_BOUNDS * Unit)
  /\ \E i \in Particles : 16 * matrix[i].x = 7 * XY_BOUNDS * Unit

(* C12: a frame never changes a star's x or y, also on the frame that      *)
(* recycles it: in the clamp revision x and y stay the memoised initial    *)
(* values, in the current revision every step leaves them as they were.    *)
C12_XYKept ==
  \A i \in Particles :
    matrix[i].x = positions[i].x /\ matrix[i].y = positions[i].y

C12_XYStep ==
  \A i \in Particles :
    /\ matrix'[i].x = matrix[i].x /\ matrix'[i].y = matrix[i].y
    /\ curMatrix'[i].x = curMatrix[i].x /\ curMatrix'[i].y = curMatrix[i].y

C12_OnlyZMutated == [](C12_XYKept) /\ [][C12_XYStep]_vars

\* a recycled star off the axis, its z changed and its x and y kept
C12_Witness ==
  /\ Ran
  /\ \E i \in Particles :
       /\ Recycled(i)
       /\ matrix[i].z # positions[i].z
       /\ positions[i].x # 0
       /\ matrix[i].x = positions[i].x
       /\ matrix[i].y = positions[i].y

(* C14: at elapsedTime = 0 with delta > 0 every star that is not recycled  *)
(* moves toward the camera (z strictly decreases) and the stretch written  *)
(* is MAX_SCALE_FACTOR; so a star at z = 0 with delta = 1/64 ends the      *)
(* first frame at z < 0.                                                   *)
C14_FirstFrameFullStretch ==
  (Ran /\ elapsedTime = 0 /\ delta > 0) =>
    \A i \in Particles :
      /\ matrix[i].sz = MAX_SCALE_FACTOR * Unit
      /\ ~Recycled(i) => matrix[i].z < prevMatrix[i].z

C14_Witness ==
  /\ Ran
  /\ frames = 1
  /\ elapsedTime = 0
  /\ delta = Unit \div 64
  /\ \E i \in Particles :
       prevMatrix[i].z = 0 /\ matrix[i].z < 0 /\ matrix[i].sz = MAX_SCALE_FACTOR * Unit

(* C15: a frame run while meshRef is empty changes no transform, colour,   *)
(* dirty flag or offset of either revision; a frame run while only         *)
(* effectsRef is empty updates every star and raises both dirty flags but  *)
(* leaves the offset as it was.                                            *)
C15_SkippedFrame ==
  (frames' = frames + 1 /\ ~meshRef) =>
    UNCHANGED <<matrix, color, instanceColor, matrixNeedsUpdate,
                colorNeedsUpdate, offset, curMatrix, curColor,
                curInstanceColor, curMatrixNeedsUpdate, curColorNeedsUpdate,
                curOffset>>

C15_FrameWithoutEffects ==
  (frames' = frames + 1 /\ meshRef /\ ~effectsRef) =>
    /\ offset' = offset
    /\ curOffset' = curOffset
    /\ matrixNeedsUpdate' /\ colorNeedsUpdate'
    /\ curMatrixNeedsUpdate' /\ curColorNeedsUpdate'
    /\ instanceColor' /\ curInstanceColor'
    /\ \A i \in Particles :
         /\ matrix'[i].z = IF matrix[i].z < -ZHalf THEN ZHalf
                           ELSE matrix[i].z - step'
         /\ curMatrix'[i].z = IF curMatrix[i].z > ZHalf THEN -ZHalf
                              ELSE curMatrix'[i].z
         /\ curMatrix[i].z <= ZHalf => curMatrix'[i].z >= curMatrix[i].z + delta'

C15_GuardsAreNoOps == [][C15_SkippedFrame /\ C15_FrameWithoutEffects]_vars

\* an update frame, then a frame with meshRef empty: nothing moved
C15_Witness ==
  /\ lastFrame = "skipped"
  /\ ~meshRef
  /\ instanceColor
  /\ matrix = prevMatrix
  /\ matrixNeedsUpdate

(* C16: the offset of the current revision, max(0, 0.5^t * BASE_OFFSET),   *)
(* is always the offset of the clamp revision on the same frames.          *)
C16_OffsetsAgree ==
  /\ offset = curOffset
  /\ lastFrame = "full" =>
       curOffset.x = Max2(0, (Unit \div (2 ^ elapsedTime)) * CHROMATIC_ABBERATION_OFFSET)

\* a later frame: both offsets have decayed below the base offset together
C16_Witness ==
  /\ lastFrame = "full"
  /\ frames >= 2
  /\ elapsedTime > 0
  /\ curOffset.x < CHROMATIC_ABBERATION_OFFSET * Unit
  /\ offset = curOffset

\* The largest delta a frame is given.
MaxDelta == Unit \div 4

(* C19: with every delta in [0, D], every stored z of the clamp revision   *)
(* lies in [-Z_BOUNDS/2 - D * MAX_SPEED_FACTOR, Z_BOUNDS/2]; after an      *)
(* update frame the overshoot is at most that frame's                      *)
(* delta * MAX_SPEED_FACTOR.                                               *)
C19_ZWithinOneStepOfBounds ==
  /\ \A d \in Deltas : 0 <= d /\ d <= MaxDelta
  /\ \A i \in Particles :
       /\ matrix[i].z <= ZHalf
       /\ matrix[i].z >= -ZHalf - MaxDelta * MAX_SPEED_FACTOR
       /\ Ran => matrix[i].z >= -ZHalf - delta * MAX_SPEED_FACTOR

\* one star a full maximal step past the near plane, another on the far plane
C19_Witness ==
  /\ Ran
  /\ delta > 0
  /\ \E i \in Particles : matrix[i].z = -ZHalf - delta * MAX_SPEED_FACTOR
  /\ \E i \in Particles : matrix[i].z < -ZHalf

\* every star of the buffer carries the transform of the current frame
AllWritten(buf) ==
  \A i \in Particles : buf[i] = UpdateStar(prevMatrix[i], elapsedTime, delta)

(* C13: the dirty flags are raised only once the loop has written all      *)
(* COUNT stars, they are down while the loop runs, and whenever the        *)
(* renderer takes a new buffer, every star in it is of the same frame.     *)
C13_FlagsDownInLoop ==
  loopPc = "loop" => ~matrixNeedsUpdate /\ ~colorNeedsUpdate

C13_FlagsAfterLoop ==
  ((matrixNeedsUpdate' /\ ~matrixNeedsUpdate)
      \/ (colorNeedsUpdate' /\ ~colorNeedsUpdate)) =>
    /\ loopI > COUNT
    /\ AllWritten(matrix)
    /\ matrix' = matrix

C13_RenderReadsWhole ==
  rendered' # rendered => (loopPc = "render" /\ AllWritten(rendered'))

C13_NoPartialBuffer ==
  /\ [](C13_FlagsDownInLoop)
  /\ [][C13_FlagsAfterLoop /\ C13_RenderReadsWhole]_vars

\* two frames drawn: the renderer holds the whole second frame
C13_Witness ==
  /\ loopPc = "idle"
  /\ frames >= 2
  /\ Ran
  /\ delta > 0
  /\ rendered = matrix
  /\ AllWritten(rendered)
  /\ \A i \in Particles : rendered[i].z # prevMatrix[i].z

(* C17: in every run of the gated variant in which frames keep arriving,   *)
(* whatever the spacing of their clock readings, the gate eventually       *)
(* leaves Warping: some update runs with the gate Settled.                 *)
C17_GateEventuallySettles == <>(usedGate = "Settled")

(* C18: when every frame has delta >= d > 0 and frames keep arriving,      *)
(* every star is recycled to z = Z_BOUNDS/2 again and again: none stays    *)
(* at or beyond the near plane.                                            *)
C18_RecycledInfinitelyOften ==
  \A i \in Particles : []<>(Ran /\ Recycled(i) /\ matrix[i].z = ZHalf)

\* late in the run, at the slowest step, a star that began next to the far
\* plane has crossed the whole depth and is recycled
C18_Witness ==
  /\ Ran
  /\ elapsedTime = MaxTime
  /\ step = delta
  /\ \E i \in Particles :
       /\ positions[i].z > 0
       /\ Recycled(i)
       /\ matrix[i].z = ZHalf

====
